---- MODULE Spec2Model ----
(***************************************************************************)
(* Emotion Eye Tracker (electron-app).                                     *)
(*                                                                         *)
(* Two state machines share this module.                                   *)
(*   - the presentation surface (renderer/js/app.js): the WebSocket        *)
(*     channel to the worker, the session recorder, the start / stop /     *)
(*     calibrate / export handlers and the summary computed for export;    *)
(*   - the host (main.js): the supervisor of the Python worker process,    *)
(*     driven by the application lifecycle events.                         *)
(* Spec is the presentation surface, HostSpec the host.  Each leaves the   *)
(* other machine's variables untouched.  Spec includes both directions of  *)
(* the 'export-data' bridge (preload.js).  FaultSpec is Spec with a worker *)
(* that may also send malformed frames.                                    *)
(*                                                                         *)
(* In Spec the four command handlers may run in any state once initApp     *)
(* has attached them, whether or not their button is disabled; the         *)
(* disabled attributes are part of the state.  Rendering (the emotion      *)
(* bars, the canvas, the video feed, the log pane) is not modelled.        *)
(***************************************************************************)
EXTENDS Integers, Sequences, FiniteSets, TLC

(***************************************************************************)
(* Bounds of the model.                                                    *)
(***************************************************************************)
\* samples one tracking session may hold: a frame arrives in Tracking only
\* while its sections still fit
MaxSamples == 3
\* the clock (Date.now()) runs from 1 to MaxTime
MaxTime == 2

\* workers the host may spawn in one run
MaxWorkers == 2

\* state.sessionData.startTime: null  (no session was ever started)
Null == 0 - 1

\* the value undefined where the code expects a number, and where it expects
\* an object
Undefined == 0 - 2

UndefinedObject == [undefined |-> TRUE]

\* obj[k], which is undefined when obj has no property k
Field(obj, k, undefined) == IF k \in DOMAIN obj THEN obj[k] ELSE undefined

(***************************************************************************)
(* The wire protocol: inbound frames after JSON.parse.                     *)
(***************************************************************************)
\* emotion labels the worker emits: keys of CONFIG.emotionColors
Labels == {"happy", "sad"}

\* an optional section of a frame that is not present
Absent == [absent |-> TRUE]

\* gaze coordinates in halves of the normalised range [0, 1]
GazeSections == {[GazeX |-> 0, GazeY |-> 2], [GazeX |-> 1, GazeY |-> 0]}

\* emotion_scores: the score of every label; here the winner scores 1
ScoresOf(l) == [k \in Labels |-> IF k = l THEN 1 ELSE 0]

EmotionSections == {[emotion |-> l, emotion_scores |-> ScoresOf(l)] : l \in Labels}

TrackingFrames ==
    {[type |-> "tracking_data", data |-> [gaze |-> g, emotion |-> e]] :
        g \in GazeSections \cup {Absent}, e \in EmotionSections \cup {Absent}}

Commands == {"start_tracking", "stop_tracking", "calibrate"}

ResponseFrames ==
    {[type |-> "command_response", command |-> "start_tracking", status |-> "ok"]}

\* frames whose type discriminator the client does not know
OtherFrames == {[type |-> "heartbeat"]}

Frames == TrackingFrames \cup ResponseFrames \cup OtherFrames

\* What a worker that breaks the protocol may send.
\* event.data that is not JSON: JSON.parse throws a SyntaxError
NotJSON == [SyntaxError |-> TRUE]

\* a gaze section without GazeX, an emotion section without its label and
\* an emotion section without its scores
GazeWithoutX == [GazeY |-> 0]

EmotionWithoutLabel == [emotion_scores |-> ScoresOf("happy")]

EmotionWithoutScores == [emotion |-> "happy"]

MalformedTrackingFrames ==
    {[type |-> "tracking_data"],
     [type |-> "tracking_data",
      data |-> [gaze |-> GazeWithoutX,
                emotion |-> [emotion |-> "sad", emotion_scores |-> ScoresOf("sad")]]],
     [type |-> "tracking_data",
      data |-> [gaze |-> [GazeX |-> 1, GazeY |-> 0], emotion |-> EmotionWithoutLabel]],
     [type |-> "tracking_data",
      data |-> [gaze |-> Absent, emotion |-> EmotionWithoutScores]]}

MalformedFrames == {NotJSON} \cup MalformedTrackingFrames

(***************************************************************************)
(* State.                                                                  *)
(***************************************************************************)
VARIABLES
    \* --- presentation surface ---
    readyState,      \* state.wsConnection: "null" or the socket's readyState
    closeQueued,     \* an error event was dispatched, its close event is next
    isTracking,      \* state.isTracking
    sessionData,     \* state.sessionData
    gazeData,        \* state.gazeData
    currentEmotions, \* state.currentEmotions
    disabled,        \* the disabled attribute of the four buttons
    wrote,           \* what the handler that ran last wrote to the channel
    handed,          \* the export the handler that ran last handed over
    now,             \* Date.now()
    rx,              \* history: the gaze and the emotion sections of the
                     \* well-formed frames that arrived in Tracking since the
                     \* last start
    last,            \* history: the handler that ran last, and its input
    \* --- host ---
    platform,        \* process.platform
    phase,           \* the application: "starting", "ready", "quitting", "quit"
    windows,         \* BrowserWindow.getAllWindows().length
    pythonProcess,   \* the supervisor's handle: NoProcess or a worker
    workers,         \* each spawn(...) the host makes: "unspawned" (not made
                     \* yet), "running", "exited" (the close event is still
                     \* to come), "closed", "failed" (no process came to be)
                     \* or "threw" (spawn threw, no child object was returned)
    attempts,        \* each worker: the kill signals and taskkills issued
    files            \* the export artifacts the host wrote to a file

rvars == <<readyState, closeQueued, isTracking, sessionData, gazeData,
           currentEmotions, disabled, wrote, handed, now, rx, last>>

hvars == <<platform, phase, windows, pythonProcess, workers, attempts, files>>

vars == <<rvars, hvars>>

\* let pythonProcess = null
NoProcess == 0

WorkerIds == 1 .. MaxWorkers

NoExport == [via |-> "none"]

NoSections == [gaze |-> <<>>, emotion |-> <<>>]

\* the sections of one more frame
Arrived(h, data) ==
    [gaze |-> IF data.gaze # Absent THEN Append(h.gaze, data.gaze) ELSE h.gaze,
     emotion |-> IF data.emotion # Absent THEN Append(h.emotion, data.emotion)
                 ELSE h.emotion]

Samples(session) == Len(session.gazePoints) + Len(session.emotions)

\* the number of sections a frame carries
Sections(message) ==
    IF "data" \notin DOMAIN message
    THEN 0
    ELSE (IF message.data.gaze # Absent THEN 1 ELSE 0)
         + (IF message.data.emotion # Absent THEN 1 ELSE 0)

EmptySession == [startTime |-> Null, emotions |-> <<>>, gazePoints |-> <<>>]

\* index.html: only the start button has no disabled attribute
InitialButtons == [start |-> FALSE, stop |-> TRUE, calibrate |-> TRUE, export |-> TRUE]

RInit ==
    /\ readyState = "null"
    /\ closeQueued = FALSE
    /\ isTracking = FALSE
    /\ sessionData = EmptySession
    /\ gazeData = [x |-> 1, y |-> 1]
    /\ currentEmotions = <<>>
    /\ disabled = InitialButtons
    /\ wrote = <<>>
    /\ handed = NoExport
    /\ now = 1
    /\ rx = NoSections
    /\ last = [op |-> "load"]

(***************************************************************************)
(* The session recorder: handleTrackingData.                               *)
(***************************************************************************)
GazePoint(g, t) == [x |-> g.GazeX, y |-> g.GazeY, timestamp |-> t]

\* { ...emotionScores }: spreading undefined gives an empty object
Spread(obj) == IF obj = UndefinedObject THEN <<>> ELSE obj

EmotionEntry(e, t) ==
    [emotion |-> e.emotion,
     scores |-> Spread(Field(e, "emotion_scores", UndefinedObject)),
     timestamp |-> t]

\* gazeX.toFixed(2) or gazeY.toFixed(2) throws a TypeError: a coordinate is
\* undefined.  The live value is assigned by then, the sample is not pushed.
GazeThrows(data) ==
    data.gaze # Absent /\ ~({"GazeX", "GazeY"} \subseteq DOMAIN data.gaze)

\* emotion.charAt(0) throws a TypeError: the label is undefined.  The live
\* scores are assigned by then, the sample is not pushed.
EmotionThrows(data) ==
    data.emotion # Absent /\ "emotion" \notin DOMAIN data.emotion

\* a plausible slip: unshift instead of push
UnshiftGaze(session, g, t) ==
    [session EXCEPT !.gazePoints = <<GazePoint(g, t)>> \o @]

\* state.sessionData.gazePoints.push(...)
PushGaze(session, g, t) ==
    [session EXCEPT !.gazePoints = Append(@, GazePoint(g, t))]

\* a plausible slip: the newest emotion sample is put first
UnshiftEmotion(session, e, t) ==
    [session EXCEPT !.emotions = <<EmotionEntry(e, t)>> \o @]

\* state.sessionData.emotions.push(...)
PushEmotion(session, e, t) ==
    [session EXCEPT !.emotions = Append(@, EmotionEntry(e, t))]

\* the session after handleTrackingData(data) ran at time t, to its end or
\* to the statement that threw
Recorded(session, data, t) ==
    LET s1 == IF data.gaze # Absent THEN PushGaze(session, data.gaze, t) ELSE session
    IN  IF GazeThrows(data) THEN session
        ELSE IF data.emotion # Absent /\ ~EmotionThrows(data)
             THEN PushEmotion(s1, data.emotion, t)
             ELSE s1

\* state.gazeData after handleTrackingData(data)
LiveGaze(data) ==
    IF data.gaze # Absent
    THEN [x |-> Field(data.gaze, "GazeX", Undefined),
          y |-> Field(data.gaze, "GazeY", Undefined)]
    ELSE gazeData

\* state.currentEmotions after handleTrackingData(data)
LiveEmotions(data) ==
    IF data.emotion # Absent /\ ~GazeThrows(data)
    THEN Field(data.emotion, "emotion_scores", UndefinedObject)
    ELSE currentEmotions

\* a plausible slip: the isTracking guard is missing
HandleTrackingDataUnguarded(data) ==
    IF data = UndefinedObject
    THEN UNCHANGED <<sessionData, gazeData, currentEmotions>>
    ELSE /\ sessionData' = Recorded(sessionData, data, now)
         /\ gazeData' = LiveGaze(data)
         /\ currentEmotions' = LiveEmotions(data)

\* handleTrackingData(data).  Reading data.gaze of an undefined data throws
\* a TypeError before anything is assigned.
HandleTrackingData(data) ==
    IF ~isTracking \/ data = UndefinedObject
    THEN UNCHANGED <<sessionData, gazeData, currentEmotions>>
    ELSE /\ sessionData' = Recorded(sessionData, data, now)
         /\ gazeData' = LiveGaze(data)
         /\ currentEmotions' = LiveEmotions(data)

(***************************************************************************)
(* The channel: connectWebSocket and its four callbacks.                   *)
(* Every handler leaves in wrote and handed what it wrote to the channel   *)
(* and what it handed over for saving.                                     *)
(***************************************************************************)
Quiet == wrote' = <<>> /\ handed' = NoExport

\* initApp, on DOMContentLoaded: the listeners are attached and the socket
\* is created
InitApp ==
    /\ UNCHANGED hvars
    /\ readyState = "null"
    /\ readyState' = "CONNECTING"
    /\ last' = [op |-> "initApp"]
    /\ Quiet
    /\ UNCHANGED <<closeQueued, isTracking, sessionData, gazeData, currentEmotions,
                   disabled, now, rx>>

\* a plausible slip: onopen enables the stop button as well
OnOpenEnablesStop ==
    /\ UNCHANGED hvars
    /\ readyState = "CONNECTING"
    /\ readyState' = "OPEN"
    /\ disabled' = [disabled EXCEPT !.start = FALSE, !.stop = FALSE]
    /\ last' = [op |-> "open"]
    /\ Quiet
    /\ UNCHANGED <<closeQueued, isTracking, sessionData, gazeData, currentEmotions,
                   now, rx>>

OnOpen ==
    /\ UNCHANGED hvars
    /\ readyState = "CONNECTING"
    /\ readyState' = "OPEN"
    /\ disabled' = [disabled EXCEPT !.start = FALSE]
    /\ last' = [op |-> "open"]
    /\ Quiet
    /\ UNCHANGED <<closeQueued, isTracking, sessionData, gazeData, currentEmotions,
                   now, rx>>

\* the worker starts the closing handshake: no callback runs
BeginClose ==
    /\ UNCHANGED hvars
    /\ readyState = "OPEN"
    /\ readyState' = "CLOSING"
    /\ UNCHANGED <<closeQueued, isTracking, sessionData, gazeData, currentEmotions,
                   disabled, wrote, handed, now, rx, last>>

\* the connection failed: the socket is CLOSED, onerror runs (it only logs)
\* and the close event follows in the same task
OnError ==
    /\ UNCHANGED hvars
    /\ readyState \in {"CONNECTING", "OPEN", "CLOSING"}
    /\ readyState' = "CLOSED"
    /\ closeQueued' = TRUE
    /\ last' = [op |-> "error"]
    /\ Quiet
    /\ UNCHANGED <<isTracking, sessionData, gazeData, currentEmotions,
                   disabled, now, rx>>

\* a plausible slip: onclose disables the buttons and leaves isTracking
OnCloseKeepsTracking ==
    /\ UNCHANGED hvars
    /\ \/ closeQueued
       \/ readyState \in {"OPEN", "CLOSING"}
    /\ readyState' = "CLOSED"
    /\ closeQueued' = FALSE
    /\ disabled' = [disabled EXCEPT !.start = TRUE, !.stop = TRUE, !.calibrate = TRUE]
    /\ last' = [op |-> "close", failed |-> closeQueued]
    /\ Quiet
    /\ UNCHANGED <<isTracking, sessionData, gazeData, currentEmotions, now, rx>>

\* a plausible slip: onclose resets the session as well
OnCloseResetsSession ==
    /\ UNCHANGED hvars
    /\ \/ closeQueued
       \/ readyState \in {"OPEN", "CLOSING"}
    /\ readyState' = "CLOSED"
    /\ closeQueued' = FALSE
    /\ disabled' = [disabled EXCEPT !.start = TRUE, !.stop = TRUE, !.calibrate = TRUE]
    /\ isTracking' = FALSE
    /\ sessionData' = EmptySession
    /\ last' = [op |-> "close", failed |-> closeQueued]
    /\ Quiet
    /\ UNCHANGED <<gazeData, currentEmotions, now, rx>>

\* a plausible slip: onclose connects again
OnCloseReconnects ==
    /\ UNCHANGED hvars
    /\ \/ closeQueued
       \/ readyState \in {"OPEN", "CLOSING"}
    /\ readyState' = "CONNECTING"
    /\ closeQueued' = FALSE
    /\ disabled' = [disabled EXCEPT !.start = TRUE, !.stop = TRUE, !.calibrate = TRUE]
    /\ isTracking' = FALSE
    /\ last' = [op |-> "close", failed |-> closeQueued]
    /\ Quiet
    /\ UNCHANGED <<sessionData, gazeData, currentEmotions, now, rx>>

\* onclose: after a clean close, or after the error event of a failed
\* connection (last notes which)
OnClose ==
    /\ UNCHANGED hvars
    /\ \/ closeQueued
       \/ readyState \in {"OPEN", "CLOSING"}
    /\ readyState' = "CLOSED"
    /\ closeQueued' = FALSE
    /\ disabled' = [disabled EXCEPT !.start = TRUE, !.stop = TRUE, !.calibrate = TRUE]
    /\ isTracking' = FALSE
    /\ last' = [op |-> "close", failed |-> closeQueued]
    /\ Quiet
    /\ UNCHANGED <<sessionData, gazeData, currentEmotions, now, rx>>

\* a plausible slip: a response is taken for the end of the session
DispatchResponseStops(message) ==
    /\ IF message # NotJSON /\ message.type = "tracking_data"
       THEN HandleTrackingData(Field(message, "data", UndefinedObject))
       ELSE UNCHANGED <<sessionData, gazeData, currentEmotions>>
    /\ isTracking' = IF message # NotJSON /\ message.type = "command_response"
                     THEN FALSE
                     ELSE isTracking

\* a plausible slip: a frame of an unknown type ends the session
DispatchStrict(message) ==
    /\ IF message # NotJSON /\ message.type = "tracking_data"
       THEN HandleTrackingData(Field(message, "data", UndefinedObject))
       ELSE UNCHANGED <<sessionData, gazeData, currentEmotions>>
    /\ isTracking' = IF message # NotJSON
                        /\ message.type \in {"tracking_data", "command_response"}
                     THEN isTracking
                     ELSE FALSE

\* the body of onmessage: the frame is dispatched on its type discriminator;
\* a command_response is only logged.  When JSON.parse throws, or the handler
\* it calls does, the callback ends there.
Dispatch(message) ==
    /\ IF message # NotJSON /\ message.type = "tracking_data"
       THEN HandleTrackingData(Field(message, "data", UndefinedObject))
       ELSE UNCHANGED <<sessionData, gazeData, currentEmotions>>
    /\ UNCHANGED isTracking

\* a message event: delivered only while the socket is OPEN
OnMessage(message) ==
    /\ readyState = "OPEN"
    /\ isTracking => Samples(sessionData) + Sections(message) <= MaxSamples
    /\ Dispatch(message)
    /\ rx' = IF isTracking /\ message \in TrackingFrames
             THEN Arrived(rx, message.data)
             ELSE rx
    /\ last' = [op |-> "message", frame |-> message]
    /\ Quiet
    /\ UNCHANGED <<readyState, closeQueued, disabled, now>>
    /\ UNCHANGED hvars

(***************************************************************************)
(* The user's commands.                                                    *)
(***************************************************************************)
\* the handlers exist once initApp ran, and no handler runs between an error
\* event and its close event
CanHandle == readyState # "null" /\ ~closeQueued

\* a plausible slip: only a CLOSED socket counts as not open
IsOpenUnlessClosed == readyState # "CLOSED"

\* a plausible slip: a socket that is still connecting counts as open
IsOpenOrConnecting == readyState \in {"OPEN", "CONNECTING"}

\* state.wsConnection && state.wsConnection.readyState === WebSocket.OPEN
IsOpen == readyState = "OPEN"

\* state.wsConnection.send(JSON.stringify({ command: c }))
Send(c) == wrote' = <<[command |-> c]>>

\* a plausible slip: only the start time is reset
RestartedSession(t) == [sessionData EXCEPT !.startTime = t]

\* a plausible slip: the reset leaves startTime null
FreshSessionUnstamped(t) == [startTime |-> Null, emotions |-> <<>>, gazePoints |-> <<>>]

\* state.sessionData = { startTime: Date.now(), emotions: [], gazePoints: [] }
FreshSession(t) == [startTime |-> t, emotions |-> <<>>, gazePoints |-> <<>>]

StartTracking ==
    /\ UNCHANGED hvars
    /\ CanHandle
    /\ last' = [op |-> "start"]
    /\ handed' = NoExport
    /\ IF ~IsOpen
       THEN /\ wrote' = <<>>
            /\ UNCHANGED <<sessionData, isTracking, disabled, rx>>
       ELSE /\ sessionData' = FreshSession(now)
            /\ Send("start_tracking")
            /\ isTracking' = TRUE
            /\ disabled' = [disabled EXCEPT !.start = TRUE, !.stop = FALSE,
                                            !.calibrate = FALSE]
            /\ rx' = NoSections
    /\ UNCHANGED <<readyState, closeQueued, gazeData, currentEmotions, now>>

\* a plausible slip: stop sends the command and leaves isTracking
StopTrackingStaysOn ==
    /\ UNCHANGED hvars
    /\ CanHandle
    /\ last' = [op |-> "stop", tracking |-> isTracking]
    /\ handed' = NoExport
    /\ IF ~isTracking
       THEN /\ wrote' = <<>>
            /\ UNCHANGED disabled
       ELSE /\ IF IsOpen THEN Send("stop_tracking") ELSE wrote' = <<>>
            /\ disabled' = [disabled EXCEPT !.start = FALSE, !.stop = TRUE,
                                            !.calibrate = TRUE, !.export = FALSE]
    /\ UNCHANGED <<readyState, closeQueued, isTracking, sessionData, gazeData,
                   currentEmotions, now, rx>>

StopTracking ==
    /\ UNCHANGED hvars
    /\ CanHandle
    /\ last' = [op |-> "stop", tracking |-> isTracking]
    /\ handed' = NoExport
    /\ IF ~isTracking
       THEN /\ wrote' = <<>>
            /\ UNCHANGED <<isTracking, disabled>>
       ELSE /\ IF IsOpen THEN Send("stop_tracking") ELSE wrote' = <<>>
            /\ isTracking' = FALSE
            /\ disabled' = [disabled EXCEPT !.start = FALSE, !.stop = TRUE,
                                            !.calibrate = TRUE, !.export = FALSE]
    /\ UNCHANGED <<readyState, closeQueued, sessionData, gazeData, currentEmotions,
                   now, rx>>

\* a plausible slip: the isTracking guard is missing
CalibrateGazeAnytime ==
    /\ UNCHANGED hvars
    /\ CanHandle
    /\ last' = [op |-> "calibrate"]
    /\ handed' = NoExport
    /\ IF IsOpen THEN Send("calibrate") ELSE wrote' = <<>>
    /\ UNCHANGED <<readyState, closeQueued, isTracking, sessionData, gazeData,
                   currentEmotions, disabled, now, rx>>

CalibrateGaze ==
    /\ UNCHANGED hvars
    /\ CanHandle
    /\ last' = [op |-> "calibrate"]
    /\ handed' = NoExport
    /\ IF isTracking /\ IsOpen THEN Send("calibrate") ELSE wrote' = <<>>
    /\ UNCHANGED <<readyState, closeQueued, isTracking, sessionData, gazeData,
                   currentEmotions, disabled, now, rx>>

(***************************************************************************)
(* Export: generateSummary and exportData.                                 *)
(***************************************************************************)
\* An object with string keys, as the list of its properties in the order
\* for-in enumerates them: the order of creation (no emotion label is an
\* array index).
HasKey(obj, k) == \E i \in 1 .. Len(obj) : obj[i].key = k

\* emotionCounts[emotion] = (emotionCounts[emotion] || 0) + 1
CountOne(obj, k) ==
    IF HasKey(obj, k)
    THEN [i \in 1 .. Len(obj) |->
             IF obj[i].key = k THEN [obj[i] EXCEPT !.value = @ + 1] ELSE obj[i]]
    ELSE Append(obj, [key |-> k, value |-> 1])

RECURSIVE CountEmotions(_)
CountEmotions(emotions) ==
    IF emotions = <<>>
    THEN <<>>
    ELSE CountOne(CountEmotions(SubSeq(emotions, 1, Len(emotions) - 1)),
                  emotions[Len(emotions)].emotion)

\* a plausible slip: >= for >
BeatsOrTies(count, maxCount) == count >= maxCount

\* if (emotionCounts[emotion] > maxCount)
Beats(count, maxCount) == count > maxCount

\* the for-in loop over emotionCounts, from its first n properties
RECURSIVE MostCommon(_, _)
MostCommon(obj, n) ==
    IF n = 0
    THEN [primaryEmotion |-> "neutral", maxCount |-> 0]
    ELSE LET sofar == MostCommon(obj, n - 1)
         IN  IF Beats(obj[n].value, sofar.maxCount)
             THEN [primaryEmotion |-> obj[n].key, maxCount |-> obj[n].value]
             ELSE sofar

\* Number(startTime): null counts as 0 in arithmetic and in new Date(...)
ToNumber(t) == IF t = Null THEN 0 ELSE t

\* new Date(t).toISOString()
ToISOString(t) == [iso |-> t]

\* a plausible slip: no early return, the loop's default label is returned
GenerateSummaryDefault(session, t) ==
    LET emotionCounts == CountEmotions(session.emotions)
    IN  [primaryEmotion |-> MostCommon(emotionCounts, Len(emotionCounts)).primaryEmotion,
         emotionCounts |-> emotionCounts,
         totalEmotionSamples |-> Len(session.emotions),
         totalGazeSamples |-> Len(session.gazePoints),
         sessionDurationMs |-> t - ToNumber(session.startTime)]

GenerateSummary(session, t) ==
    IF Len(session.emotions) = 0
    THEN [primaryEmotion |-> "none", emotionCounts |-> <<>>]
    ELSE LET emotionCounts == CountEmotions(session.emotions)
         IN  [primaryEmotion |-> MostCommon(emotionCounts, Len(emotionCounts)).primaryEmotion,
              emotionCounts |-> emotionCounts,
              totalEmotionSamples |-> Len(session.emotions),
              totalGazeSamples |-> Len(session.gazePoints),
              sessionDurationMs |-> t - ToNumber(session.startTime)]

\* a plausible slip: the artifact is identified by the time of the export
ArtifactStampedAtExport(session, t) ==
    [sessionId |-> t,
     startTime |-> ToISOString(ToNumber(session.startTime)),
     endTime |-> ToISOString(t),
     emotions |-> session.emotions,
     gazePoints |-> session.gazePoints,
     summary |-> GenerateSummary(session, t)]

\* the object exportData builds
Artifact(session, t) ==
    [sessionId |-> session.startTime,
     startTime |-> ToISOString(ToNumber(session.startTime)),
     endTime |-> ToISOString(t),
     emotions |-> session.emotions,
     gazePoints |-> session.gazePoints,
     summary |-> GenerateSummary(session, t)]

\* a plausible slip: a session counts as empty only when it never started
NoDataUnlessStarted(session) == session.startTime = Null

\* if (emotions.length === 0 && gazePoints.length === 0)
NoData(session) == Len(session.emotions) = 0 /\ Len(session.gazePoints) = 0

\* exportData; api tells whether window.api exists when it is read (it does
\* under the preload bridge, it does not in a plain browser)
ExportData(api) ==
    /\ UNCHANGED hvars
    /\ CanHandle
    /\ last' = [op |-> "export"]
    /\ wrote' = <<>>
    /\ handed' = IF NoData(sessionData)
                 THEN NoExport
                 ELSE [via |-> IF api THEN "host" ELSE "download",
                       data |-> Artifact(sessionData, now)]
    /\ UNCHANGED <<readyState, closeQueued, isTracking, sessionData, gazeData,
                   currentEmotions, disabled, now, rx>>

(***************************************************************************)
(* The bridge between the presentation surface and the host (preload.js):  *)
(* both directions use the channel 'export-data'.                          *)
(***************************************************************************)
\* ipcRenderer.send('export-data', data) reaches the host: the message the
\* export handler just sent is dispatched there.  main.js registers no
\* listener for the channel (it never uses ipcMain), so nothing is written.
OnExportData ==
    /\ handed.via = "host"
    /\ last' = [op |-> "ipc"]
    /\ Quiet
    /\ UNCHANGED files
    /\ UNCHANGED <<platform, phase, windows, pythonProcess, workers, attempts>>
    /\ UNCHANGED <<readyState, closeQueued, isTracking, sessionData, gazeData,
                   currentEmotions, disabled, now, rx>>

\* the destination the user picks in the save dialog of File > Export Data
Paths == {"emotion-data.json", "session.json"}

\* a plausible slip: the callback takes the message for a command to stop
OnExportRequestStops(path) ==
    /\ UNCHANGED hvars
    /\ CanHandle
    /\ last' = [op |-> "exportRequest", path |-> path]
    /\ Quiet
    /\ isTracking' = FALSE
    /\ UNCHANGED <<readyState, closeQueued, sessionData, gazeData,
                   currentEmotions, disabled, now, rx>>

\* File > Export Data: mainWindow.webContents.send('export-data', filePath)
\* runs the callback initApp gave to window.api.onExportRequest, which logs
\* the path
OnExportRequest(path) ==
    /\ UNCHANGED hvars
    /\ CanHandle
    /\ last' = [op |-> "exportRequest", path |-> path]
    /\ Quiet
    /\ UNCHANGED <<readyState, closeQueued, isTracking, sessionData, gazeData,
                   currentEmotions, disabled, now, rx>>

\* Date.now() advances
Tick ==
    /\ UNCHANGED hvars
    /\ now < MaxTime
    /\ ~closeQueued
    /\ now' = now + 1
    /\ UNCHANGED <<readyState, closeQueued, isTracking, sessionData, gazeData,
                   currentEmotions, disabled, wrote, handed, rx, last>>

(***************************************************************************)
(* The host: the supervisor of the worker process (main.js).               *)
(***************************************************************************)
HInit ==
    /\ platform \in {"win32", "darwin", "linux"}
    /\ phase = "starting"
    /\ windows = 0
    /\ pythonProcess = NoProcess
    /\ workers = [w \in WorkerIds |-> "unspawned"]
    /\ attempts = [w \in WorkerIds |-> 0]
    /\ files = {}

Unspawned == {w \in WorkerIds : workers[w] = "unspawned"}

Live == {w \in WorkerIds : workers[w] = "running"}

\* What spawn(...) may do.  "running": the worker is started.  "failed": the
\* executable is missing or cannot be launched; spawn still returns a child
\* object and reports through the child's error event, for which
\* startPythonBackend registers no listener, so the event is thrown as an
\* uncaught exception of the host on the next tick, and the child's close
\* event never comes.  "threw": spawn itself throws and the catch block logs.
SpawnOutcomes == {"running", "failed", "threw"}

\* startPythonBackend: spawn(...) and keep the child in pythonProcess
StartPythonBackend ==
    /\ Unspawned # {}
    /\ LET w == CHOOSE x \in Unspawned : \A y \in Unspawned : x <= y
       IN  \E outcome \in SpawnOutcomes :
               /\ pythonProcess' = IF outcome = "threw" THEN pythonProcess ELSE w
               /\ workers' = [workers EXCEPT ![w] = outcome]

\* one termination attempt on the child held in handle.  taskkill is spawned
\* whatever became of the process; kill() signals only a child that has not
\* exited yet.
Terminate(handle) ==
    IF platform = "win32" \/ workers[handle] = "running"
    THEN [attempts EXCEPT ![handle] = @ + 1]
    ELSE attempts

\* stopPythonBackend
StopPythonBackend ==
    /\ attempts' = IF pythonProcess # NoProcess THEN Terminate(pythonProcess)
                   ELSE attempts
    /\ UNCHANGED <<pythonProcess, workers>>

\* createWindow: the worker is started, then the window is opened
CreateWindow ==
    /\ StartPythonBackend
    /\ windows' = 1
    /\ UNCHANGED attempts

\* app.whenReady().then(...)
Ready ==
    /\ phase = "starting"
    /\ phase' = "ready"
    /\ CreateWindow
    /\ UNCHANGED <<platform, files, rvars>>

\* app.on('activate'): macOS only, the dock icon is clicked
Activate ==
    /\ phase = "ready"
    /\ platform = "darwin"
    /\ windows = 0
    /\ CreateWindow
    /\ UNCHANGED <<platform, phase, files, rvars>>

\* the last window is closed: app.on('window-all-closed')
WindowAllClosed ==
    /\ phase = "ready"
    /\ windows = 1
    /\ windows' = 0
    /\ StopPythonBackend
    /\ phase' = IF platform # "darwin" THEN "quitting" ELSE phase
    /\ UNCHANGED <<platform, files, rvars>>

\* the Quit menu item (role: 'quit'): the windows are closed without a
\* window-all-closed event and will-quit follows
MenuQuit ==
    /\ phase = "ready"
    /\ phase' = "quitting"
    /\ windows' = 0
    /\ UNCHANGED <<platform, pythonProcess, workers, attempts, files, rvars>>

\* app.on('will-quit'), after which the host process ends
WillQuit ==
    /\ phase = "quitting"
    /\ phase' = "quit"
    /\ StopPythonBackend
    /\ UNCHANGED <<platform, windows, files, rvars>>

\* a worker process ends: terminated, crashed or finished
WorkerExit(w) ==
    /\ workers[w] = "running"
    /\ workers' = [workers EXCEPT ![w] = "exited"]
    /\ UNCHANGED <<platform, phase, windows, pythonProcess, attempts, files, rvars>>

\* a plausible slip: the close handler logs and keeps the handle
OnWorkerCloseKeepsHandle(w) ==
    /\ workers[w] = "exited"
    /\ phase # "quit"
    /\ workers' = [workers EXCEPT ![w] = "closed"]
    /\ UNCHANGED <<platform, phase, windows, pythonProcess, attempts, files, rvars>>

\* pythonProcess.on('close', ...) of worker w, while the host still runs
OnWorkerClose(w) ==
    /\ workers[w] = "exited"
    /\ phase # "quit"
    /\ workers' = [workers EXCEPT ![w] = "closed"]
    /\ pythonProcess' = NoProcess
    /\ UNCHANGED <<platform, phase, windows, attempts, files, rvars>>

(***************************************************************************)
(* The two specifications.                                                 *)
(***************************************************************************)
\* the host as the presentation surface's specification leaves it
HIdle == HInit /\ platform = "linux"

\* the presentation surface as the host's specification leaves it
RIdle == RInit

Init == RInit /\ HIdle

Next ==
    \/ InitApp
    \/ OnOpen
    \/ BeginClose
    \/ OnError
    \/ OnClose
    \/ \E message \in Frames : OnMessage(message)
    \/ StartTracking
    \/ StopTracking
    \/ CalibrateGaze
    \/ \E api \in BOOLEAN : ExportData(api)
    \/ OnExportData
    \/ \E path \in Paths : OnExportRequest(path)
    \/ Tick

Spec == Init /\ [][Next]_vars

\* The presentation surface facing a worker that may break the protocol.
FaultNext ==
    \/ Next
    \/ \E message \in MalformedFrames : OnMessage(message)

FaultSpec == Init /\ [][FaultNext]_vars

HostInit == HInit /\ RIdle

HostNext ==
    \/ Ready
    \/ Activate
    \/ WindowAllClosed
    \/ MenuQuit
    \/ WillQuit
    \/ \E w \in WorkerIds : WorkerExit(w)
    \/ \E w \in WorkerIds : OnWorkerClose(w)

HostSpec == HostInit /\ [][HostNext]_vars

(***************************************************************************)
(* Properties of the presentation surface, checked under Spec, and of the  *)
(* host, checked under HostSpec.                                           *)
(***************************************************************************)
gazePoints == sessionData.gazePoints

emotions == sessionData.emotions

\* the step is a message event (OnMessage notes its frame in last)
MessageStep == last'.op = "message" /\ OnMessage(last'.frame)

\* C1: outside Tracking no sample is appended.  A step that starts with
\* isTracking false never lengthens a sample sequence, and a message step
\* that starts with isTracking false leaves the whole session as it was.
C1_NoSampleOutsideTracking ==
    [][~isTracking =>
          /\ Len(sessionData'.gazePoints) <= Len(gazePoints)
          /\ Len(sessionData'.emotions) <= Len(emotions)
          /\ MessageStep => sessionData' = sessionData]_vars

\* C1, its case: after a stop on an open channel the worker kept emitting,
\* and a frame with both sections was handled while the session holds data
C1_Witness ==
    /\ last.op = "message"
    /\ last.frame.type = "tracking_data"
    /\ last.frame.data.gaze # Absent
    /\ last.frame.data.emotion # Absent
    /\ ~isTracking
    /\ readyState = "OPEN"
    /\ sessionData.startTime # Null
    /\ Samples(sessionData) > 0

\* C2: in Tracking, the stored gaze samples are exactly the gaze sections of
\* the frames handled since the start command, one sample per section and
\* in receipt order, and likewise the stored emotion samples.
C2_RecordedInReceiptOrder ==
    isTracking =>
        /\ Len(gazePoints) = Len(rx.gaze)
        /\ \A i \in 1 .. Len(rx.gaze) :
              /\ gazePoints[i].x = rx.gaze[i].GazeX
              /\ gazePoints[i].y = rx.gaze[i].GazeY
        /\ Len(emotions) = Len(rx.emotion)
        /\ \A i \in 1 .. Len(rx.emotion) :
              /\ emotions[i].emotion = rx.emotion[i].emotion
              /\ emotions[i].scores = rx.emotion[i].emotion_scores

\* C2, its case: a session in Tracking that holds two different gaze samples
\* and an emotion sample, from two frames of which one carried both sections
C2_Witness ==
    /\ isTracking
    /\ Len(gazePoints) = 2
    /\ gazePoints[1].x # gazePoints[2].x
    /\ Len(emotions) = 1
    /\ last.op = "message"
    /\ Sections(last.frame) = 1

\* C3: a start, stop or calibrate command requested while the socket is not
\* OPEN writes nothing to the channel, and a start requested then changes
\* neither isTracking nor the session.
C3_NothingSentUnlessOpen ==
    [][readyState # "OPEN" =>
          /\ (StartTracking \/ StopTracking \/ CalibrateGaze) => wrote' = <<>>
          /\ StartTracking => /\ isTracking' = isTracking
                              /\ sessionData' = sessionData]_vars

\* C3, its case: a start command was rejected on a closing channel, after a
\* session that recorded samples was stopped; the samples are still there
C3_Witness ==
    /\ last.op = "start"
    /\ readyState = "CLOSING"
    /\ wrote = <<>>
    /\ ~isTracking
    /\ Samples(sessionData) > 0

\* C4: stop() is idempotent: no worker is ever the target of more than one
\* termination attempt (kill signal or taskkill).
C4_OneTerminationAttempt == \A w \in WorkerIds : attempts[w] <= 1

\* C5: at most one worker process spawned by this host is alive.
C5_AtMostOneLiveWorker == Cardinality(Live) <= 1

\* C6: export() on a session whose two sample sequences are empty hands
\* nothing over, writes nothing and changes neither the session nor the
\* controller.
C6_NoDataExport ==
    [][((\E api \in BOOLEAN : ExportData(api)) /\ Len(gazePoints) = 0 /\ Len(emotions) = 0) =>
          /\ handed' = NoExport
          /\ wrote' = <<>>
          /\ UNCHANGED <<sessionData, isTracking, readyState, disabled, gazeData,
                         currentEmotions>>]_vars

\* C6, its case: export was requested after a session that was started and
\* stopped without recording anything
C6_Witness ==
    /\ last.op = "export"
    /\ handed = NoExport
    /\ sessionData.startTime # Null
    /\ ~isTracking
    /\ Samples(sessionData) = 0

\* C7: the artifact of every export carries summary.totalGazeSamples and
\* summary.totalEmotionSamples, equal to the numbers of recorded gaze and
\* emotion samples and to the lengths of gazePoints and emotions.
C7_TotalsMatch ==
    handed # NoExport =>
        LET a == handed.data
        IN  /\ {"totalGazeSamples", "totalEmotionSamples"} \subseteq DOMAIN a.summary
            /\ a.summary.totalGazeSamples = Len(gazePoints)
            /\ a.summary.totalEmotionSamples = Len(emotions)
            /\ Len(a.gazePoints) = Len(gazePoints)
            /\ Len(a.emotions) = Len(emotions)

\* the occurrences of label l in a sequence of emotion samples
Occurrences(es, l) == Cardinality({i \in 1 .. Len(es) : es[i].emotion = l})

\* the position of the first occurrence of a label that occurs
FirstSeen(es, l) ==
    CHOOSE i \in 1 .. Len(es) :
        es[i].emotion = l /\ \A j \in 1 .. (i - 1) : es[j].emotion # l

Occurring(es) == {es[i].emotion : i \in 1 .. Len(es)}

\* C8: for a session with emotion samples, summary.primaryEmotion is a label
\* of maximal occurrence count, the earliest seen among the labels of that
\* count, and emotionCounts gives each occurring label once, with its exact
\* number of occurrences.
C8_PrimaryEmotion ==
    (handed # NoExport /\ Len(emotions) > 0) =>
        LET summary == handed.data.summary
            counts == summary.emotionCounts
            p == summary.primaryEmotion
        IN  /\ p \in Occurring(emotions)
            /\ \A l \in Occurring(emotions) :
                  /\ Occurrences(emotions, l) <= Occurrences(emotions, p)
                  /\ (l # p /\ Occurrences(emotions, l) = Occurrences(emotions, p))
                        => FirstSeen(emotions, p) < FirstSeen(emotions, l)
            /\ {counts[i].key : i \in 1 .. Len(counts)} = Occurring(emotions)
            /\ Len(counts) = Cardinality(Occurring(emotions))
            /\ \A i \in 1 .. Len(counts) :
                  counts[i].value = Occurrences(emotions, counts[i].key)

\* C8, its case: an exported session in which two labels tie and the label
\* seen first is not the first in alphabetical order
C8_Witness ==
    /\ handed # NoExport
    /\ Len(emotions) >= 2
    /\ emotions[1].emotion = "sad"
    /\ Occurrences(emotions, "sad") = Occurrences(emotions, "happy")
    /\ handed.data.summary.primaryEmotion = "sad"

\* C9 as claimed: the summary of a session without emotion samples has
\* primaryEmotion "neutral".
C9_NeutralWithoutEmotions ==
    (handed # NoExport /\ Len(emotions) = 0) =>
        handed.data.summary.primaryEmotion = "neutral"

\* C9 as amended: the summary of a session without emotion samples has
\* primaryEmotion "none" and empty emotionCounts.
C9_NoneWithoutEmotions ==
    (handed # NoExport /\ Len(emotions) = 0) =>
        /\ handed.data.summary.primaryEmotion = "none"
        /\ handed.data.summary.emotionCounts = <<>>

\* C9, its case: a session with gaze samples only was exported
C9_Witness ==
    /\ handed # NoExport
    /\ Len(emotions) = 0
    /\ Len(gazePoints) > 0

\* C10: a frame whose type is neither tracking_data nor command_response
\* changes nothing: session, isTracking, live values and buttons stay, nothing
\* is written or handed over, and the socket stays OPEN.
C10_UnknownFrameIgnored ==
    [][(MessageStep /\ last'.frame.type \notin {"tracking_data", "command_response"}) =>
          /\ UNCHANGED <<sessionData, isTracking, disabled, gazeData, currentEmotions>>
          /\ wrote' = <<>>
          /\ handed' = NoExport
          /\ readyState' = "OPEN"]_vars

\* C10, its case: a frame of unknown type was handled in Tracking, with
\* samples recorded
C10_Witness ==
    /\ last.op = "message"
    /\ last.frame.type \notin {"tracking_data", "command_response"}
    /\ isTracking
    /\ Samples(sessionData) > 0

\* C11: a malformed frame (not JSON, tracking_data without data, or with a
\* section that lacks a required field) is dropped as a whole: the session,
\* isTracking and the socket's state are as before the frame.
C11_MalformedFrameDropped ==
    [][(MessageStep /\ last'.frame \in MalformedFrames) =>
          UNCHANGED <<sessionData, isTracking, readyState>>]_vars

\* C12: a start command on an OPEN socket, outside Tracking (never started,
\* or stopped), sets isTracking, replaces the session by an empty one whose
\* startTime is now, and writes exactly one start_tracking.
C12_StartBeginsFreshSession ==
    [][(StartTracking /\ readyState = "OPEN" /\ ~isTracking) =>
          /\ isTracking'
          /\ sessionData'.startTime = now
          /\ sessionData'.emotions = <<>>
          /\ sessionData'.gazePoints = <<>>
          /\ wrote' = <<[command |-> "start_tracking"]>>]_vars

\* C12, its case: a start from Stopped (export is enabled by stop alone)
\* after a session that recorded gaze (the live gaze value is no longer the
\* initial one); the new session is empty
C12_Witness ==
    /\ last.op = "start"
    /\ isTracking
    /\ ~disabled.export
    /\ gazeData # [x |-> 1, y |-> 1]
    /\ Samples(sessionData) = 0
    /\ sessionData.startTime = now
    /\ now = MaxTime

\* C13: a stop in Tracking clears isTracking, writes one stop_tracking on an
\* OPEN socket and nothing otherwise, and leaves the session; a stop outside
\* Tracking changes nothing and writes nothing; and outside Tracking no step
\* but a start command changes the session (startTime and both sequences).
C13_StopFreezesSession ==
    [][/\ (StopTracking /\ isTracking) =>
              /\ ~isTracking'
              /\ wrote' = IF readyState = "OPEN"
                          THEN <<[command |-> "stop_tracking"]>>
                          ELSE <<>>
              /\ sessionData' = sessionData
       /\ (StopTracking /\ ~isTracking) =>
              /\ wrote' = <<>>
              /\ UNCHANGED <<isTracking, sessionData, disabled, readyState,
                             gazeData, currentEmotions>>
       /\ (~isTracking /\ ~StartTracking) => sessionData' = sessionData]_vars

\* C13, its case: the session was stopped with samples (start and export are
\* enabled, the socket is OPEN) and a frame with a gaze section came after
C13_Witness ==
    /\ last.op = "message"
    /\ Sections(last.frame) > 0
    /\ ~isTracking
    /\ ~disabled.start
    /\ ~disabled.export
    /\ disabled.stop
    /\ Len(gazePoints) > 0
    /\ Len(emotions) > 0

\* C14: a close event leaves isTracking false and start, stop and calibrate
\* disabled, whatever the state before; an error event is followed by its
\* close event before any other handler runs.
C14_CloseReturnsToIdle ==
    [][/\ OnClose => /\ ~isTracking'
                     /\ disabled'.start /\ disabled'.stop /\ disabled'.calibrate
       /\ OnError => closeQueued'
       /\ closeQueued => OnClose]_vars

\* C14, its case: the connection failed in Tracking with samples recorded
\* (export never was enabled: no stop was given), error and close ran
C14_Witness ==
    /\ last.op = "close"
    /\ last.failed
    /\ ~isTracking
    /\ disabled.start /\ disabled.stop /\ disabled.calibrate
    /\ disabled.export
    /\ Samples(sessionData) > 0

\* C15: a close or error event leaves the session as it was, and an export
\* on a CLOSED socket hands over every sample the session holds.
C15_CloseKeepsSession ==
    [][/\ (OnClose \/ OnError) => sessionData' = sessionData
       /\ ((\E api \in BOOLEAN : ExportData(api)) /\ readyState = "CLOSED"
              /\ Samples(sessionData) > 0) =>
              /\ handed' # NoExport
              /\ handed'.data.emotions = emotions
              /\ handed'.data.gazePoints = gazePoints
              /\ handed'.data.sessionId = sessionData.startTime]_vars

\* C15, its case: a session with samples of both kinds was stopped (export
\* enabled), the socket closed, and the export handed the samples over
C15_Witness ==
    /\ last.op = "export"
    /\ readyState = "CLOSED"
    /\ ~disabled.export
    /\ handed # NoExport
    /\ Len(handed.data.gazePoints) > 0
    /\ Len(handed.data.emotions) > 0

\* startPythonBackend is called (by createWindow)
StartStep == Ready \/ Activate

\* C16: the close event of a worker clears the handle; while the handle is
\* null it stays null and no termination attempt is issued, until
\* startPythonBackend runs; and startPythonBackend run with a null handle
\* holds the worker it started.
C16_ExitClearsHandle ==
    [][/\ (\E w \in WorkerIds : OnWorkerClose(w)) => pythonProcess' = NoProcess
       /\ (pythonProcess = NoProcess /\ ~StartStep) =>
              /\ pythonProcess' = NoProcess
              /\ attempts' = attempts
       /\ (pythonProcess = NoProcess /\ StartStep) =>
              \A w \in WorkerIds :
                  (workers[w] = "unspawned" /\ workers'[w] = "running")
                      => pythonProcess' = w]_vars

\* C16, its case: worker 1 ended without ever being signalled (the window was
\* closed when it had ended), its exit was observed, and worker 2 was started
\* and is held
C16_Witness ==
    /\ platform = "darwin"
    /\ workers[1] = "closed"
    /\ attempts[1] = 0
    /\ workers[2] = "running"
    /\ pythonProcess = 2
    /\ windows = 1

\* C17: after a spawn that failed, the supervisor holds no handle for the
\* worker that never came to be (no worker is considered live) and no
\* termination attempt is issued for it.
C17_SpawnFailureHarmless ==
    \A w \in WorkerIds :
        workers[w] \in {"failed", "threw"} => (pythonProcess # w /\ attempts[w] = 0)

\* C18: the artifact an export hands to the host is written to a file: when
\* the host dispatches the export-data message, it writes the artifact.
C18_ExportWritten ==
    [][OnExportData => handed.data \in files']_vars

\* C19: a command_response frame changes no application state: isTracking,
\* the session, the live gaze and emotion values and the buttons stay, and
\* nothing is written to the channel.
C19_ResponseChangesNothing ==
    [][(MessageStep /\ last'.frame \in ResponseFrames) =>
          /\ UNCHANGED <<isTracking, sessionData, gazeData, currentEmotions,
                         disabled, readyState>>
          /\ wrote' = <<>>]_vars

\* C19, its case: the response to start_tracking arrived in Tracking, with
\* gaze and emotion samples recorded
C19_Witness ==
    /\ last.op = "message"
    /\ last.frame \in ResponseFrames
    /\ isTracking
    /\ Len(gazePoints) > 0
    /\ Len(emotions) > 0

\* C20: the export message of the host (the path chosen in File > Export
\* Data) changes neither isTracking, the session nor the buttons, and sends
\* no command to the worker.
C20_ExportRequestAdvisory ==
    [][(\E path \in Paths : OnExportRequest(path)) =>
          /\ UNCHANGED <<isTracking, sessionData, disabled, readyState>>
          /\ wrote' = <<>>
          /\ handed' = NoExport]_vars

\* C20, its case: the path arrived in Tracking with samples recorded
C20_Witness ==
    /\ last.op = "exportRequest"
    /\ isTracking
    /\ ~disabled.stop
    /\ Samples(sessionData) > 0

\* C21: a calibrate request writes exactly one calibrate command in Tracking
\* on an OPEN socket and nothing in any other state, and it never changes
\* isTracking, the session, the live values, the buttons or the socket.
C21_CalibrateOnlyInTracking ==
    [][CalibrateGaze =>
          /\ wrote' = IF isTracking /\ readyState = "OPEN"
                      THEN <<[command |-> "calibrate"]>>
                      ELSE <<>>
          /\ handed' = NoExport
          /\ UNCHANGED <<isTracking, sessionData, gazeData, currentEmotions,
                         disabled, readyState>>]_vars

\* C21, its case: calibrate was requested and sent in Tracking, with samples
\* recorded
C21_Witness ==
    /\ last.op = "calibrate"
    /\ wrote = <<[command |-> "calibrate"]>>
    /\ isTracking
    /\ readyState = "OPEN"
    /\ Samples(sessionData) > 0

\* C22: the artifact of an export of a non-empty session carries the raw
\* startTime as sessionId and the two sample sequences as recorded; the export
\* changes neither the session nor the controller; and an export that
\* follows an export carries the same sessionId, startTime and samples.
C22_ArtifactCarriesSession ==
    [][((\E api \in BOOLEAN : ExportData(api)) /\ Samples(sessionData) > 0) =>
          /\ handed' # NoExport
          /\ handed'.data.sessionId = sessionData.startTime
          /\ handed'.data.emotions = emotions
          /\ handed'.data.gazePoints = gazePoints
          /\ UNCHANGED <<sessionData, isTracking, disabled, readyState, gazeData,
                         currentEmotions>>
          /\ handed # NoExport =>
                /\ handed'.data.sessionId = handed.data.sessionId
                /\ handed'.data.startTime = handed.data.startTime
                /\ handed'.data.emotions = handed.data.emotions
                /\ handed'.data.gazePoints = handed.data.gazePoints
                /\ handed'.data.summary.emotionCounts = handed.data.summary.emotionCounts]_vars

\* C22, its case: a stopped session with two different gaze samples and an
\* emotion sample was exported, later than it was started
C22_Witness ==
    /\ last.op = "export"
    /\ handed # NoExport
    /\ ~isTracking
    /\ readyState = "OPEN"
    /\ Len(handed.data.gazePoints) = 2
    /\ handed.data.gazePoints[1].x # handed.data.gazePoints[2].x
    /\ Len(handed.data.emotions) = 1
    /\ handed.data.endTime.iso > handed.data.sessionId

\* the timestamps of a sample sequence never decrease
InTimeOrder(samples) ==
    \A i, j \in 1 .. Len(samples) :
        i < j => samples[i].timestamp <= samples[j].timestamp

\* no timestamp of a sample sequence is before t
NotBefore(samples, t) ==
    \A i \in 1 .. Len(samples) : samples[i].timestamp >= t

\* sequence s is the beginning of sequence t
IsPrefix(s, t) == Len(s) <= Len(t) /\ SubSeq(t, 1, Len(s)) = s

\* C23: both sample sequences are in non-decreasing timestamp order, no
\* timestamp is before startTime, and a step that changes the session either
\* appends at the end of the sequences or is the reset of a start command.
C23_AppendOnlyInTimeOrder ==
    /\ [](/\ InTimeOrder(gazePoints) /\ InTimeOrder(emotions)
          /\ NotBefore(gazePoints, sessionData.startTime)
          /\ NotBefore(emotions, sessionData.startTime))
    /\ [][sessionData' # sessionData =>
             \/ /\ sessionData'.startTime = sessionData.startTime
                /\ IsPrefix(gazePoints, sessionData'.gazePoints)
                /\ IsPrefix(emotions, sessionData'.emotions)
             \/ StartTracking /\ sessionData' = FreshSession(now)]_vars

\* C23, its case: a session started at one time holds an emotion sample and
\* a gaze sample taken at different times, both later than the start or at it
C23_Witness ==
    /\ isTracking
    /\ Len(emotions) = 2
    /\ emotions[1].timestamp < emotions[2].timestamp
    /\ emotions[1].emotion # emotions[2].emotion
    /\ Len(gazePoints) = 1

\* C24: the socket is created once, by initApp; once it is CLOSED it stays
\* CLOSED, the controller does not enter Tracking and a start command writes
\* nothing and changes neither isTracking nor the session.
C24_ConnectedOnce ==
    [][/\ (readyState' # readyState /\ readyState' \in {"null", "CONNECTING"}) =>
              (InitApp /\ readyState = "null")
       /\ readyState = "CLOSED" =>
              /\ readyState' = "CLOSED"
              /\ isTracking' => isTracking
              /\ StartTracking => /\ wrote' = <<>>
                                  /\ UNCHANGED <<isTracking, sessionData>>]_vars

\* C24, its case: after a session the socket closed, and a start command was
\* then rejected
C24_Witness ==
    /\ last.op = "start"
    /\ readyState = "CLOSED"
    /\ wrote = <<>>
    /\ ~isTracking
    /\ disabled.start
    /\ Samples(sessionData) > 0

\* C25: when the host has quit, every worker that is still alive has been
\* the target of at least one termination attempt.
C25_QuitTerminatesLiveWorkers ==
    phase = "quit" => \A w \in Live : attempts[w] >= 1

\* C26: the close event of an earlier worker leaves the handle as it is when
\* the handle refers to another worker, which is running.
C26_LateExitKeepsNewerHandle ==
    [][\A w \in WorkerIds :
          (OnWorkerClose(w) /\ pythonProcess \in Live \ {w})
              => pythonProcess' = pythonProcess]_vars

\* C27 as claimed: in Tracking the socket is OPEN (the state between an
\* error event and its close event, which no handler sees, is left out).
C27_TrackingImpliesOpen ==
    (isTracking /\ ~closeQueued) => readyState = "OPEN"

\* C27 as amended: in Tracking the socket was opened and its close event has
\* not been handled: it is OPEN, or CLOSING, or it failed and the close event
\* is next.  Tracking is entered only by a start command on an OPEN socket,
\* and the close event leaves Tracking.
C27_TrackingUntilCloseEvent ==
    /\ [](isTracking => (readyState \in {"OPEN", "CLOSING"} \/ closeQueued))
    /\ [][/\ (~isTracking /\ isTracking') => (StartTracking /\ readyState = "OPEN")
          /\ OnClose => (~isTracking' /\ readyState' = "CLOSED")]_vars

\* C27, its case: the worker started to close the connection during a
\* session that holds samples
C27_Witness ==
    /\ isTracking
    /\ readyState = "CLOSING"
    /\ ~closeQueued
    /\ ~disabled.stop
    /\ Samples(sessionData) > 0

\* C28 as claimed, in the states in which the initial state of the buttons no
\* longer shows (the socket was opened, or its close event was handled): stop
\* and calibrate are enabled exactly in Tracking, and start is enabled only
\* on an OPEN socket outside Tracking.
C28_AffordancesMatch ==
    (readyState \in {"OPEN", "CLOSING", "CLOSED"} /\ ~closeQueued) =>
        /\ ~disabled.stop <=> isTracking
        /\ ~disabled.calibrate <=> isTracking
        /\ ~disabled.start => (readyState = "OPEN" /\ ~isTracking)

\* C28 as amended: stop and calibrate are enabled exactly in Tracking, start
\* is never enabled in Tracking, and start is disabled once the close event
\* has been handled.
C28_AffordancesFollowTracking ==
    /\ ~disabled.stop <=> isTracking
    /\ ~disabled.calibrate <=> isTracking
    /\ ~disabled.start => ~isTracking
    /\ (readyState = "CLOSED" /\ ~closeQueued) => disabled.start

\* C28, its case: a session was stopped while the socket was closing: start
\* is enabled again although the channel is not open
C28_Witness ==
    /\ last.op = "stop"
    /\ last.tracking
    /\ readyState = "CLOSING"
    /\ ~disabled.start
    /\ disabled.stop
    /\ disabled.calibrate
    /\ ~isTracking

\* C29: while the export button is enabled and the session holds samples,
\* the controller is not in Tracking.
C29_ExportOnlyWhenFrozen ==
    (~disabled.export /\ Samples(sessionData) > 0) => ~isTracking

\* C30: a session that holds a sample has a startTime that is not null, and
\* no artifact has a null sessionId.
C30_SamplesImplyStartTime ==
    /\ Samples(sessionData) > 0 => sessionData.startTime # Null
    /\ handed # NoExport => handed.data.sessionId # Null

\* C30, its case: a session with gaze samples only was exported by download
\* while it was still recording
C30_Witness ==
    /\ last.op = "export"
    /\ handed # NoExport
    /\ handed.via = "download"
    /\ isTracking
    /\ Len(gazePoints) > 0
    /\ Len(emotions) = 0
    /\ handed.data.sessionId = sessionData.startTime
====
